---- MODULE Spec2Model ----
(***************************************************************************)
(* Model of the Bible reader's selection engine (src/main.js, class        *)
(* BibleApp): the four-level selection, the cache-backed document load,    *)
(* chapter navigation and the view switching.                              *)
(*                                                                         *)
(* Conventions.                                                            *)
(*  - A string field that is unset holds Null.  JavaScript null and ""     *)
(*    are both falsy and the code only ever tests these fields for         *)
(*    truthiness, so one value stands for both.  In the same way NoNum     *)
(*    stands for a numeric field that is null or 0.                        *)
(*  - An optional value is a sequence of length 0 (JavaScript null /       *)
(*    undefined) or 1 (the value).                                         *)
(*  - Book indices are 1-based; 0 is "not found" (JavaScript -1).          *)
(*  - Every element named in initElements exists in the page.              *)
(*  - The text of a hidden element is kept at its initial value: the       *)
(*    title, the verse list and the navigation flags are rewritten by      *)
(*    displayCurrentSelection before every showReading, the error message  *)
(*    by every showError, and the code never reads any of them back.       *)
(*  - One action is one macrotask of the event loop: an event handler      *)
(*    together with the microtasks (continuations of already settled       *)
(*    promises) it queues.  A load is suspended only at the IndexedDB read *)
(*    and at the network fetch.                                            *)
(***************************************************************************)
EXTENDS Integers, Sequences, FiniteSets, TLC

\* ----------------------------------------------------------------- bounds
MaxLoads == 2
MaxTimers == 1
MaxChapter == 3   \* chapter values a chapter change is tried with: 0..MaxChapter
MaxVerse == 3     \* verse values a verse change is tried with: 0..MaxVerse

\* ------------------------------------------------------------------- data
Null == ""
NoNum == 0
None == <<>>
Some(x) == <<x>>

Book(abbrev, name, chapters) ==
  [abbrev |-> abbrev, name |-> name, chapters |-> chapters]

\* The documents the server can serve, as parsed JSON (arrays of books with
\* abbrev, name and chapters: arrays of arrays of verse strings).
DocX ==
  << Book("Gn", "Genesis", << <<"x1", "x2">>, <<"x3">> >>),
     Book("Ex", "Exodus", << <<"x4", "x5", "x6">> >>) >>
DocY ==
  << Book("Gn", "Genese", << <<"y1">> >>),
     Book("Ap", "Apocalypse", << <<"y2", "y3">>, <<>> >>),
     Book("Jd", "Jude", << <<"y4">> >>) >>
DocE == <<>>

\* The values a book change is tried with: for every document some are the
\* abbreviation of one of its books and some are not.
BookValues == {Null, "Gn", "Ex", "Ap"}

Docs == {"X", "Y", "E"}
Library == [d \in Docs |-> CASE d = "X" -> DocX [] d = "Y" -> DocY [] OTHER -> DocE]

\* ------------------------------------------------------------------ state
VARIABLES
  app,      \* the BibleApp object's fields and the page elements it writes
  db,       \* this.db: "none" (open failed, null), "open", "closed" (the
            \* browser closed the connection; this.db is still non-null)
  store,    \* the object store 'bibles': key (filename) -> optional record
  loads,    \* the suspended loadSelectedBible calls: how many there are of
            \* each kind (document, where it waits, history mark)
  timers,   \* the pending setTimeout callbacks of navigateToPreviousBook
  cur,      \* history: outcome of the load of the latest document change
  ev,       \* history: the handler that ran last and how it ended
  stored,   \* history: the documents whose write-through was accepted
  rt        \* history of the cache round trip: per key the last cacheBible
            \* call (content, fate, whether other keys were used since), and
            \* the last getBibleFromCache answer since the last cacheBible

vars == <<app, db, store, loads, timers, cur, ev, stored, rt>>

EmptySelection ==
  [bible |-> Null, book |-> Null, chapter |-> NoNum,
   startVerse |-> NoNum, endVerse |-> NoNum]

NoTitle == [name |-> "", chapter |-> 0, suffix |-> <<>>]

\* What the reading element shows (chapterTitle, verses and the two
\* navigation buttons) before anything was rendered.
NoReading ==
  [chapterTitle |-> NoTitle, verses |-> <<>>, prevDisabled |-> FALSE, nextDisabled |-> FALSE]

\* ------------------------------------------------------------ view state
setViewState(a, hiddenStates) ==
  [a EXCEPT !.hidden = hiddenStates,
            !.reading = IF hiddenStates.reading THEN NoReading ELSE @,
            !.errorMessage = IF hiddenStates.error THEN "" ELSE @]

showWelcome(a) ==
  setViewState(a, [welcome |-> FALSE, reading |-> TRUE, loading |-> TRUE, error |-> TRUE])

showLoading(a) ==
  setViewState(a, [welcome |-> TRUE, reading |-> TRUE, loading |-> FALSE, error |-> TRUE])

hideLoading(a) == [a EXCEPT !.hidden.loading = TRUE]

showReading(a) ==
  setViewState(a, [welcome |-> TRUE, reading |-> FALSE, loading |-> TRUE, error |-> TRUE])

showError(a, message) ==
  [setViewState(a, [welcome |-> TRUE, reading |-> TRUE, loading |-> TRUE, error |-> FALSE])
     EXCEPT !.errorMessage = message]

\* --------------------------------------------------------- range navigator
Books(bibleData) == IF bibleData = None THEN <<>> ELSE bibleData[1]

\* Array.prototype.findIndex on book.abbrev: the first match, 0 when none.
findIndex(bibleData, abbreviation) ==
  LET bs == Books(bibleData)
      hits == {i \in 1..Len(bs) : bs[i].abbrev = abbreviation}
  IN IF hits = {} THEN 0 ELSE CHOOSE i \in hits : \A j \in hits : i <= j

findBookByAbbrev(bibleData, abbreviation) == findIndex(bibleData, abbreviation)

\* Variant: the end of the range is exclusive.
getVerseRangeExclusive(chapterVerses, start, end) ==
  LET allVerses == [i \in 1..Len(chapterVerses) |-> [verse |-> i, text |-> chapterVerses[i]]]
      InRange(v) == v.verse >= start /\ v.verse < end
  IN SelectSeq(allVerses, InRange)

getVerseRange(chapterVerses, start, end) ==
  LET allVerses == [i \in 1..Len(chapterVerses) |-> [verse |-> i, text |-> chapterVerses[i]]]
      InRange(v) == v.verse >= start /\ v.verse <= end
  IN SelectSeq(allVerses, InRange)

renderVerses(a, bookName, chapterNumber, verses, startVerse, endVerse) ==
  LET suffix == IF startVerse = endVerse THEN <<startVerse>>
                ELSE IF startVerse # 1 \/ endVerse # Len(verses) + startVerse - 1
                     THEN <<startVerse, endVerse>>
                     ELSE <<>>
  IN [a EXCEPT !.reading.chapterTitle =
                  [name |-> bookName, chapter |-> chapterNumber, suffix |-> suffix],
               !.reading.verses = verses]

\* Variant: the buttons look at the chapter only, not at neighbouring books.
updateNavigationButtonsInBook(a) ==
  LET bs == Books(a.bibleData)
      i == findIndex(a.bibleData, a.sel.book)
  IN IF a.bibleData = None \/ a.sel.book = Null \/ a.sel.chapter = NoNum \/ i = 0
     THEN a
     ELSE [a EXCEPT !.reading.prevDisabled = ~(a.sel.chapter > 1),
                    !.reading.nextDisabled = ~(a.sel.chapter < Len(bs[i].chapters))]

updateNavigationButtons(a) ==
  LET bs == Books(a.bibleData)
      i == findIndex(a.bibleData, a.sel.book)
  IN IF a.bibleData = None \/ a.sel.book = Null \/ a.sel.chapter = NoNum \/ i = 0
     THEN a
     ELSE [a EXCEPT !.reading.prevDisabled = ~(a.sel.chapter > 1 \/ i > 1),
                    !.reading.nextDisabled =
                       ~(a.sel.chapter < Len(bs[i].chapters) \/ i < Len(bs))]

\* Variant: an empty result is rendered like any other.
displayCurrentSelectionNoEmptyCheck(a) ==
  LET s == a.sel
      bs == Books(a.bibleData)
      i == findBookByAbbrev(a.bibleData, s.book)
  IN IF s.book = Null \/ s.chapter = NoNum THEN showWelcome(a)
     ELSE IF i = 0 \/ ~(s.chapter \in 1..Len(bs[i].chapters))
     THEN showError(a, "Chapter data not found.")
     ELSE LET chapterVerses == bs[i].chapters[s.chapter]
              start == IF s.startVerse # NoNum THEN s.startVerse ELSE 1
              end == IF s.endVerse # NoNum THEN s.endVerse ELSE Len(chapterVerses)
              verses == getVerseRange(chapterVerses, start, end)
          IN updateNavigationButtons(
               renderVerses(showReading(a), bs[i].name, s.chapter, verses, start, end))

\* Variant: an unset verseEnd defaults to the start of the range.
displayCurrentSelectionOneVerse(a) ==
  LET s == a.sel
      bs == Books(a.bibleData)
      i == findBookByAbbrev(a.bibleData, s.book)
  IN IF s.book = Null \/ s.chapter = NoNum THEN showWelcome(a)
     ELSE IF i = 0 \/ ~(s.chapter \in 1..Len(bs[i].chapters))
     THEN showError(a, "Chapter data not found.")
     ELSE LET chapterVerses == bs[i].chapters[s.chapter]
              start == IF s.startVerse # NoNum THEN s.startVerse ELSE 1
              end == IF s.endVerse # NoNum THEN s.endVerse ELSE start
              verses == getVerseRange(chapterVerses, start, end)
          IN IF Len(verses) = 0
             THEN showError(a, "No verses found for the specified range.")
             ELSE updateNavigationButtons(
                    renderVerses(showReading(a), bs[i].name, s.chapter, verses, start, end))

displayCurrentSelection(a) ==
  LET s == a.sel
      bs == Books(a.bibleData)
      i == findBookByAbbrev(a.bibleData, s.book)
  IN IF s.book = Null \/ s.chapter = NoNum THEN showWelcome(a)
     ELSE IF i = 0 \/ ~(s.chapter \in 1..Len(bs[i].chapters))
     THEN showError(a, "Chapter data not found.")
     ELSE LET chapterVerses == bs[i].chapters[s.chapter]
              start == IF s.startVerse # NoNum THEN s.startVerse ELSE 1
              end == IF s.endVerse # NoNum THEN s.endVerse ELSE Len(chapterVerses)
              verses == getVerseRange(chapterVerses, start, end)
          IN IF Len(verses) = 0
             THEN showError(a, "No verses found for the specified range.")
             ELSE updateNavigationButtons(
                    renderVerses(showReading(a), bs[i].name, s.chapter, verses, start, end))

\* ------------------------------------------------ selection state machine
resetToWelcome(a) == [showWelcome(a) EXCEPT !.sel = EmptySelection]

\* The chapter <select> is created the first time a book is found.
populateChapterSelect(a, bookAbbreviation) ==
  IF findBookByAbbrev(a.bibleData, bookAbbreviation) = 0 THEN a
  ELSE [a EXCEPT !.chapterSelect = TRUE]

\* Variant: the verse range survives a chapter change.
chapterChangeKeepVerses(a, value) ==
  LET a1 == [a EXCEPT !.sel.chapter = value]
  IN IF value # NoNum THEN displayCurrentSelection(a1) ELSE a1

\* handleSelectionChange('chapter', value)
chapterChange(a, value) ==
  LET a1 == [a EXCEPT !.sel.chapter = value,
                      !.sel.startVerse = NoNum,
                      !.sel.endVerse = NoNum]
  IN IF value # NoNum THEN displayCurrentSelection(a1) ELSE a1

\* Variant: a book change selects no chapter.
bookChangeNoChapter(a, value) ==
  [a EXCEPT !.sel.book = value,
            !.sel.chapter = NoNum,
            !.sel.startVerse = NoNum,
            !.sel.endVerse = NoNum]

\* handleSelectionChange('book', value)
bookChange(a, value) ==
  LET a1 == [a EXCEPT !.sel.book = value,
                      !.sel.chapter = NoNum,
                      !.sel.startVerse = NoNum,
                      !.sel.endVerse = NoNum]
      a2 == populateChapterSelect(a1, value)
  IN IF value = Null THEN a1
     ELSE IF a2.chapterSelect THEN chapterChange(a2, 1) ELSE a2

\* Variant: a verse change clears the other verse field.
verseChangeClearOther(a, level, value) ==
  displayCurrentSelection(
    IF level = "startVerse" THEN [a EXCEPT !.sel.startVerse = value, !.sel.endVerse = NoNum]
    ELSE [a EXCEPT !.sel.endVerse = value, !.sel.startVerse = NoNum])

\* handleSelectionChange('startVerse' | 'endVerse', value)
verseChange(a, level, value) ==
  displayCurrentSelection(
    IF level = "startVerse" THEN [a EXCEPT !.sel.startVerse = value]
    ELSE [a EXCEPT !.sel.endVerse = value])

\* Variant: an empty value is treated like any other document.
bibleChangeNoReset(a, value) ==
  showLoading([a EXCEPT !.sel = [EmptySelection EXCEPT !.bible = value]])

\* handleSelectionChange('bible', value) up to the call of loadSelectedBible
bibleChange(a, value) ==
  LET a1 == [a EXCEPT !.sel = [EmptySelection EXCEPT !.bible = value]]
  IN IF value # Null THEN showLoading(a1) ELSE resetToWelcome(a1)

\* Variant: the last book is selected instead of the first.
autoSelectLastBook(a) ==
  IF a.bibleData # None /\ Len(Books(a.bibleData)) > 0
  THEN bookChange(a, Books(a.bibleData)[Len(Books(a.bibleData))].abbrev)
  ELSE a

\* handleSelectionChange('bible', value) after `await loadSelectedBible`:
\* the first book is auto-selected whenever this.bibleData is non-empty.
autoSelectFirstBook(a) ==
  IF a.bibleData # None /\ Len(Books(a.bibleData)) > 0
  THEN bookChange(a, Books(a.bibleData)[1].abbrev)
  ELSE a

\* loadSelectedBible from `this.bibleData = bibleData` on, then the caller.
loadSucceeded(a, bibleData) ==
  autoSelectFirstBook(hideLoading([a EXCEPT !.bibleData = Some(bibleData)]))

\* loadSelectedBible's catch block, then the caller.
loadFailed(a) ==
  autoSelectFirstBook(showError(a, "Failed to load Bible"))

\* -------------------------------------------------------------- navigation
\* Variant: the next button stops at the end of a book.
navigateToNextBookStay(a) == a

navigateToNextBook(a) ==
  LET bs == Books(a.bibleData)
      currentBookIndex == findIndex(a.bibleData, a.sel.book)
  IN IF a.bibleData = None THEN a
     ELSE IF currentBookIndex < Len(bs)
     THEN bookChange(a, bs[currentBookIndex + 1].abbrev)
     ELSE a

\* Variant: the previous button wraps from the first book to the last.
navigateToPreviousBookWrap(a) ==
  LET bs == Books(a.bibleData)
      currentBookIndex == findIndex(a.bibleData, a.sel.book)
  IN IF a.bibleData = None \/ currentBookIndex = 0 THEN a
     ELSE bookChange(a, bs[IF currentBookIndex > 1 THEN currentBookIndex - 1 ELSE Len(bs)].abbrev)

\* The synchronous part of navigateToPreviousBook.
navigateToPreviousBook(a) ==
  LET bs == Books(a.bibleData)
      currentBookIndex == findIndex(a.bibleData, a.sel.book)
  IN IF a.bibleData = None THEN a
     ELSE IF currentBookIndex > 1
     THEN bookChange(a, bs[currentBookIndex - 1].abbrev)
     ELSE a

\* Which branch navigateChapter takes: "none", "same", "next" or "prev".
navigateBranch(a, direction) ==
  LET bs == Books(a.bibleData)
      i == findBookByAbbrev(a.bibleData, a.sel.book)
      newChapter == a.sel.chapter + direction
  IN IF a.sel.book = Null \/ a.sel.chapter = NoNum \/ i = 0 THEN "none"
     ELSE IF newChapter >= 1 /\ newChapter <= Len(bs[i].chapters) THEN "same"
     ELSE IF direction = 1 /\ newChapter > Len(bs[i].chapters) THEN "next"
     ELSE IF direction = -1 /\ newChapter < 1 THEN "prev"
     ELSE "none"

\* Variant: inside a book the chapter moves two steps instead of one.
navigateChapterTwice(a, direction) ==
  LET branch == navigateBranch(a, direction)
  IN CASE branch = "same" -> chapterChange(a, a.sel.chapter + 2 * direction)
       [] branch = "next" -> navigateToNextBook(a)
       [] branch = "prev" -> navigateToPreviousBook(a)
       [] OTHER -> a

navigateChapter(a, direction) ==
  LET branch == navigateBranch(a, direction)
  IN CASE branch = "same" -> chapterChange(a, a.sel.chapter + direction)
       [] branch = "next" -> navigateToNextBook(a)
       [] branch = "prev" -> navigateToPreviousBook(a)
       [] OTHER -> a

\* The setTimeout callbacks navigateChapter schedules: each holds the number
\* of chapters of the previous book (prevBook is captured by the closure).
scheduledTimers(a, direction) ==
  LET bs == Books(a.bibleData)
      currentBookIndex == findIndex(a.bibleData, a.sel.book)
  IN IF navigateBranch(a, direction) = "prev" /\ currentBookIndex > 1
     THEN << Len(bs[currentBookIndex - 1].chapters) >>
     ELSE <<>>

\* Variant: the deferred step does nothing.
timerCallbackNoop(a, lastChapter) == a

\* The body of the setTimeout callback.
timerCallback(a, lastChapter) ==
  IF a.chapterSelect THEN chapterChange(a, lastChapter) ELSE a

\* ---------------------------------------------------------- document store
\* The object cacheBible puts (cached_at is never read back).
Record(filename, data) == [filename |-> filename, data |-> data]

\* How getBibleFromCache starts: without a database it answers null at once;
\* on a closed connection db.transaction throws inside the promise executor,
\* which rejects the promise; otherwise the read request is pending.
getBibleFromCacheStart(d) ==
  CASE d = "none" -> "null"
    [] d = "closed" -> "throws"
    [] OTHER -> "pending"

\* Variant: an empty array counts as "no data" (data.length ? data : null).
getBibleFromCacheEmptyIsMiss(st, filename, outcome) ==
  IF outcome = "error" \/ st[filename] = None THEN None
  ELSE IF Len(st[filename][1].data) = 0 THEN None
  ELSE Some(st[filename][1].data)

\* What the pending read resolves to: request.result?.data || null on
\* success, null on error.  The data of a record is an array, which is truthy.
getBibleFromCache(st, filename, outcome) ==
  IF outcome = "error" THEN None
  ELSE IF st[filename] = None THEN None
  ELSE Some(st[filename][1].data)

\* Variant: the record is never written.
cacheBibleNoWrite(st, d, filename, data, outcome) ==
  [store |-> st, threw |-> FALSE]

\* Variant: no try/catch around db.transaction.
cacheBibleNoCatch(st, d, filename, data, outcome) ==
  LET record == Record(filename, data)
  IN [store |-> IF d = "open" /\ outcome = "ok"
                THEN [st EXCEPT ![record.filename] = Some(record)]
                ELSE st,
      threw |-> d = "closed"]

\* Variant: every document is written under the same key.
cacheBibleOneKey(st, d, filename, data, outcome) ==
  LET record == Record(filename, data)
  IN [store |-> IF d = "open" /\ outcome = "ok"
                THEN [st EXCEPT !["X"] = Some(record)]
                ELSE st,
      threw |-> FALSE]

\* cacheBible: a put of {filename, data, cached_at} under its keyPath
\* 'filename'.  `outcome` is the fate of the write ("ok", or "rejected": quota
\* and the like), which nobody listens to.  Without a database nothing is
\* tried; a throw of db.transaction (closed connection) is caught: threw is
\* FALSE in every case.
cacheBible(st, d, filename, data, outcome) ==
  LET record == Record(filename, data)
  IN [store |-> IF d = "open" /\ outcome = "ok"
                THEN [st EXCEPT ![record.filename] = Some(record)]
                ELSE st,
      threw |-> FALSE]

\* Variant: the network is asked whatever the store answered.
needsFetchAlways(bibleData) == TRUE

\* `if (!bibleData)` in loadSelectedBible
needsFetch(bibleData) == bibleData = None

\* ----------------------------------------------------------------- actions
Ev(op, id, res, fetch, put, solo) ==
  [op |-> op, id |-> id, res |-> res, fetch |-> fetch, put |-> put, solo |-> solo]

\* The record of a level change or navigation request: the level (or "nav",
\* "timer"), the value it was called with, and for a navigation the branch
\* navigateChapter took ("prevBook" when it scheduled the deferred step); for
\* the deferred step, whether it ran right after the navigation that scheduled
\* it ("direct") or after other events ("late").
Req(op, value, res) ==
  [op |-> op, value |-> value, res |-> res]

\* A suspended load waits for the store ("cache") or the network ("fetch").
\* `seen` is what its read transaction finds under its key: the record the
\* store held when the read was requested.  Its mark is history: "solo" while
\* nothing else has run since its document change, "latest" while that change
\* is still the latest one, else "old".
LoadKinds ==
  UNION {[id : {d}, stage : {"cache", "fetch"}, mark : {"solo", "latest", "old"},
          seen : {None, Some(Record(d, Library[d]))}] : d \in Docs}
Load(id, stage, mark, seen) == [id |-> id, stage |-> stage, mark |-> mark, seen |-> seen]
Snapshot(l) == [d \in Docs |-> IF d = l.id THEN l.seen ELSE None]
NoLoads == [k \in LoadKinds |-> 0]

RECURSIVE SumOver(_, _)
SumOver(ls, kinds) ==
  IF kinds = {} THEN 0
  ELSE LET k == CHOOSE k \in kinds : TRUE IN ls[k] + SumOver(ls, kinds \ {k})
Count(ls) == SumOver(ls, LoadKinds)

Add(ls, k) == [ls EXCEPT ![k] = @ + 1]
\* Variant: a load that has resumed stays suspended and resumes again.
RemoveNever(ls, k) == ls

Remove(ls, k) == [ls EXCEPT ![k] = @ - 1]

\* Another event has run while these loads were suspended.
Disturbed(ls) ==
  [k \in LoadKinds |->
     CASE k.mark = "solo" -> 0
       [] k.mark = "latest" -> ls[k] + ls[[k EXCEPT !.mark = "solo"]]
       [] OTHER -> ls[k]]

\* Another document change (or the reset) has been applied.
Superseded(ls) ==
  [k \in LoadKinds |->
     IF k.mark = "old"
     THEN ls[k] + ls[[k EXCEPT !.mark = "solo"]] + ls[[k EXCEPT !.mark = "latest"]]
     ELSE 0]

NoGot == [id |-> Null, res |-> "", data |-> None]
NoPut == [content |-> None, fate |-> "", between |-> FALSE]
NoRoundTrip == [put |-> [d \in Docs |-> NoPut], got |-> NoGot]

\* The state once the constructor and init() are done: the welcome view is
\* shown (discoverBibles ends in resetToWelcome), nothing is selected, the
\* database is open or could not be opened.
Init ==
  /\ app = [sel |-> EmptySelection,
            bibleData |-> None,
            hidden |-> [welcome |-> FALSE, reading |-> TRUE, loading |-> TRUE, error |-> TRUE],
            errorMessage |-> "",
            reading |-> NoReading,
            chapterSelect |-> FALSE]
  /\ db \in {"none", "open"}
  /\ store = [d \in Docs |-> None]
  /\ loads = NoLoads
  /\ timers = <<>>
  /\ cur = "none"
  /\ ev = Ev("init", Null, "", FALSE, "", FALSE)
  /\ stored = {}
  /\ rt = NoRoundTrip

\* bibleSelect 'change': handleSelectionChange('bible', value) up to the
\* first suspension of loadSelectedBible.
BibleChange(value) ==
  LET start == getBibleFromCacheStart(db)
      a1 == bibleChange(app, value)
  IN /\ (value # Null /\ start # "throws") => Count(loads) < MaxLoads
     /\ app' = IF value # Null /\ start = "throws" THEN loadFailed(a1) ELSE a1
     /\ loads' = IF value = Null \/ start = "throws" THEN Superseded(loads)
                 ELSE Add(Superseded(loads),
                          IF start = "null" THEN Load(value, "fetch", "solo", None)
                          ELSE Load(value, "cache", "solo", store[value]))
     /\ cur' = IF value = Null THEN "none"
               ELSE IF start = "throws" THEN "failed" ELSE "pending"
     /\ ev' = Ev("bible", value,
                 IF value = Null THEN "idle"
                 ELSE IF start = "throws" THEN "storageThrew" ELSE "pending",
                 value # Null /\ start = "null", "", FALSE)
     /\ UNCHANGED <<db, store, timers, stored, rt>>

\* languageSelect 'change'
FilterBiblesByLanguage ==
  /\ app' = resetToWelcome(app)
  /\ loads' = Superseded(loads)
  /\ cur' = "none"
  /\ ev' = Ev("user", Null, "", FALSE, "", FALSE)
  /\ UNCHANGED <<db, store, timers, stored, rt>>

\* bookSelect 'change'
BookChange(value) ==
  /\ app' = bookChange(app, value)
  /\ loads' = Disturbed(loads)
  /\ ev' = Req("book", value, "")
  /\ UNCHANGED <<db, store, timers, cur, stored, rt>>

\* chapterSelect 'change'
ChapterChange(value) ==
  /\ app' = chapterChange(app, value)
  /\ loads' = Disturbed(loads)
  /\ ev' = Req("chapter", value, "")
  /\ UNCHANGED <<db, store, timers, cur, stored, rt>>

\* startVerse / endVerse 'change'
VerseChange(level, value) ==
  /\ app' = verseChange(app, level, value)
  /\ loads' = Disturbed(loads)
  /\ ev' = Req(level, value, "")
  /\ UNCHANGED <<db, store, timers, cur, stored, rt>>

\* prevChapterBtn / nextChapterBtn 'click'
Navigate(direction) ==
  LET ts == scheduledTimers(app, direction)
  IN /\ Len(timers) + Len(ts) <= MaxTimers
     /\ app' = navigateChapter(app, direction)
     /\ timers' = timers \o ts
     /\ loads' = Disturbed(loads)
     /\ ev' = Req("nav", direction,
                 IF ts # <<>> THEN "prevBook" ELSE navigateBranch(app, direction))
     /\ UNCHANGED <<db, store, cur, stored, rt>>

\* The oldest setTimeout callback runs.
TimerFire ==
  /\ timers # <<>>
  /\ app' = timerCallback(app, Head(timers))
  /\ timers' = Tail(timers)
  /\ loads' = Disturbed(loads)
  /\ ev' = Req("timer", Head(timers),
              IF ev.op = "nav" /\ ev.res = "prevBook" /\ Len(timers) = 1
              THEN "direct" ELSE "late")
  /\ UNCHANGED <<db, store, cur, stored, rt>>

\* The IndexedDB read of a load of kind l answers (onsuccess or onerror).
CacheResult(l, outcome) ==
  LET bibleData == getBibleFromCache(Snapshot(l), l.id, outcome)
      others == Disturbed(Remove(loads, l))
  IN /\ l.stage = "cache"
     /\ loads[l] > 0
     /\ IF needsFetch(bibleData)
        THEN /\ app' = app
             /\ loads' = Add(others, [l EXCEPT !.stage = "fetch", !.seen = None])
             /\ cur' = cur
        ELSE /\ app' = loadSucceeded(app, bibleData[1])
             /\ loads' = others
             /\ cur' = IF l.mark # "old" THEN "ok" ELSE cur
     /\ ev' = Ev("cache", l.id,
                 IF outcome = "error" THEN "readError"
                 ELSE IF bibleData = None THEN "miss" ELSE "hit",
                 needsFetch(bibleData), "", l.mark = "solo")
     /\ UNCHANGED <<db, store, timers, stored, rt>>

\* The network fetch of a load of kind l answers; on success the body is
\* parsed and written through to the store.
FetchResult(l, outcome, putOutcome) ==
  LET bibleData == Library[l.id]
      cb == cacheBible(store, db, l.id, bibleData, putOutcome)
      ok == outcome = "ok" /\ ~cb.threw
  IN /\ l.stage = "fetch"
     /\ loads[l] > 0
     /\ (db # "open" \/ outcome # "ok") => putOutcome = "rejected"
     /\ app' = IF ok THEN loadSucceeded(app, bibleData) ELSE loadFailed(app)
     /\ store' = IF outcome = "ok" THEN cb.store ELSE store
     /\ loads' = Disturbed(Remove(loads, l))
     /\ cur' = IF l.mark # "old" THEN (IF ok THEN "ok" ELSE "failed") ELSE cur
     /\ ev' = Ev("fetch", l.id,
                 IF outcome # "ok" THEN "failed" ELSE IF cb.threw THEN "putThrew" ELSE "ok",
                 FALSE,
                 IF outcome # "ok" THEN "" ELSE IF db # "open" THEN "unavailable" ELSE putOutcome,
                 l.mark = "solo")
     /\ stored' = IF outcome = "ok" /\ db = "open" /\ putOutcome = "ok"
                  THEN stored \cup {l.id} ELSE stored
     /\ UNCHANGED <<db, timers, rt>>

\* The browser closes the database connection (site data cleared, storage
\* failure): this.db stays non-null and db.transaction throws from now on.
DbClose ==
  /\ db = "open"
  /\ db' = "closed"
  /\ UNCHANGED <<app, store, loads, timers, cur, ev, stored, rt>>

\* --------------------------------------------------------- specifications
\* Spec: the page driven at the document level (document changes, language
\* filter) with up to MaxLoads loads in flight, every answer of the store and
\* of the network, and the connection closing at any moment.
Next ==
  \/ \E value \in Docs \cup {Null} : BibleChange(value)
  \/ FilterBiblesByLanguage
  \/ \E l \in LoadKinds, outcome \in {"success", "error"} : CacheResult(l, outcome)
  \/ \E l \in LoadKinds, outcome \in {"ok", "fail"}, putOutcome \in {"ok", "rejected"} :
       FetchResult(l, outcome, putOutcome)
  \/ DbClose

Spec == Init /\ [][Next]_vars

\* SpecNav: the page without a database, driven by document changes, the
\* language filter and the previous / next buttons, with the deferred step
\* of a backward navigation running at any later moment.
InitNav == Init /\ db = "none"

NextNav ==
  \/ \E value \in Docs \cup {Null} : BibleChange(value)
  \/ FilterBiblesByLanguage
  \/ \E direction \in {-1, 1} : Navigate(direction)
  \/ TimerFire
  \/ \E l \in LoadKinds, outcome \in {"ok", "fail"} : FetchResult(l, outcome, "rejected")

SpecNav == InitNav /\ [][NextNav]_vars

\* SpecSel: the engine without a database, one load at a time, driven
\* through handleSelectionChange at every level with values inside and
\* outside the active collection.
NextSel ==
  \/ \E value \in Docs \cup {Null} : Count(loads) = 0 /\ BibleChange(value)
  \/ \E value \in BookValues : BookChange(value)
  \/ \E value \in 0..MaxChapter : ChapterChange(value)
  \/ \E level \in {"startVerse", "endVerse"}, value \in 0..MaxVerse : VerseChange(level, value)
  \/ \E l \in LoadKinds, outcome \in {"ok", "fail"} : FetchResult(l, outcome, "rejected")

SpecSel == InitNav /\ [][NextSel]_vars

\* SpecBrowse: reading without a database, one load at a time: the verse
\* inputs and the previous / next buttons, with the deferred step of a
\* backward navigation running at any later moment.
NextBrowse ==
  \/ \E value \in Docs \cup {Null} : Count(loads) = 0 /\ BibleChange(value)
  \/ \E level \in {"startVerse", "endVerse"}, value \in 0..MaxVerse : VerseChange(level, value)
  \/ \E direction \in {-1, 1} : Navigate(direction)
  \/ TimerFire
  \/ \E l \in LoadKinds, outcome \in {"ok", "fail"} : FetchResult(l, outcome, "rejected")

SpecBrowse == InitNav /\ [][NextBrowse]_vars

\* SpecCache: the Document Store on its own.  cacheBible and getBibleFromCache
\* are called with any key of CacheIds and any content, the write is accepted
\* or rejected, the read answers or errors, the connection closes at any
\* moment.
CacheIds == {"X", "Y"}
Contents == {DocX, DocY, DocE}

CachePut(id, content, outcome) ==
  LET fate == IF db # "open" THEN "unavailable"
              ELSE IF outcome = "ok" THEN "accepted" ELSE "rejected"
  IN /\ db # "open" => outcome = "rejected"
     /\ store' = cacheBible(store, db, id, content, outcome).store
     /\ rt' = [put |-> [d \in Docs |->
                          IF d = id
                          THEN [content |-> Some(content), fate |-> fate, between |-> FALSE]
                          ELSE [rt.put[d] EXCEPT !.between = rt.put[d].fate # ""]],
               got |-> NoGot]
     /\ UNCHANGED <<app, db, loads, timers, cur, ev, stored>>

CacheGet(id, outcome) ==
  LET start == getBibleFromCacheStart(db)
  IN /\ start # "pending" => outcome = "success"
     /\ rt' = [put |-> [d \in Docs |->
                          IF d = id THEN rt.put[d]
                          ELSE [rt.put[d] EXCEPT !.between = rt.put[d].fate # ""]],
               got |-> [id |-> id,
                        res |-> IF start = "pending" THEN outcome ELSE start,
                        data |-> IF start = "pending"
                                 THEN getBibleFromCache(store, id, outcome)
                                 ELSE None]]
     /\ UNCHANGED <<app, db, store, loads, timers, cur, ev, stored>>

NextCache ==
  \/ \E id \in CacheIds, content \in Contents, outcome \in {"ok", "rejected"} :
       CachePut(id, content, outcome)
  \/ \E id \in CacheIds, outcome \in {"success", "error"} : CacheGet(id, outcome)
  \/ DbClose

SpecCache == Init /\ [][NextCache]_vars

\* ------------------------------------------------------------- properties
Abbrevs(bibleData) == {bibleData[i].abbrev : i \in 1..Len(bibleData)}
Texts(bibleData) ==
  UNION {UNION {{bibleData[i].chapters[c][v] : v \in 1..Len(bibleData[i].chapters[c])} :
                  c \in 1..Len(bibleData[i].chapters)} : i \in 1..Len(bibleData)}
DocumentOnly(id) == [EmptySelection EXCEPT !.bible = id]
LoadSucceeded == (ev.op = "cache" /\ ev.res = "hit") \/ (ev.op = "fetch" /\ ev.res = "ok")

\* C1: stale-load guard.  Once every load has resolved and the load of the
\* latest document change has succeeded, the active collection is the content
\* of the selected document, and the selected book and the displayed verses
\* come from that document only.
C1_StaleLoadGuard ==
  (cur = "ok" /\ Count(loads) = 0) =>
    /\ app.bibleData = Some(Library[app.sel.bible])
    /\ app.sel.book # Null => app.sel.book \in Abbrevs(Library[app.sel.bible])
    /\ \A i \in 1..Len(app.reading.verses) :
         app.reading.verses[i].text \in Texts(Library[app.sel.bible])

\* C2: a document change whose fetch fails (nothing else interleaved) leaves
\* the selection document-only: the requested id, every other field null.
C2_FailedLoadDocumentOnly ==
  (ev.op = "fetch" /\ ev.res = "failed" /\ ev.solo) => app.sel = DocumentOnly(ev.id)

\* C3: in every reachable state, a set book implies a set document.
C3_BookImpliesDocument == app.sel.book # Null => app.sel.bible # Null

\* C4: in every reachable state, a set chapter implies a set book, and a set
\* verseStart or verseEnd implies a set chapter.
C4_DescendantImpliesAncestor ==
  /\ app.sel.chapter # NoNum => app.sel.book # Null
  /\ (app.sel.startVerse # NoNum \/ app.sel.endVerse # NoNum) => app.sel.chapter # NoNum

C6_WriteThroughAlways ==
  (ev.op = "fetch" /\ ev.res = "ok" /\ ev.put # "unavailable") =>
    getBibleFromCache(store, ev.id, "success") = Some(Library[ev.id])

\* C6 amended: once the fetch of d has succeeded and its write was not
\* rejected, the store maps d to the fetched content, and every later load
\* of d whose store read answers is served from the store without a network
\* fetch.
C6_WriteThrough ==
  /\ \A d \in stored : getBibleFromCache(store, d, "success") = Some(Library[d])
  /\ (ev.op = "cache" /\ ev.id \in stored /\ ev.res # "readError" /\ ev.solo) =>
       (ev.res = "hit" /\ ~ev.fetch /\ app.bibleData = Some(Library[ev.id]))

C6_Witness ==
  /\ ev.op = "cache" /\ ev.id \in stored /\ ev.res = "hit" /\ ev.solo
  /\ stored = {"X", "Y"}

\* C7: a document change made while storage is unavailable (no database, or
\* a connection that is closed) falls through to the network: a fetch is
\* issued and no error is shown.
C7_ReadPathNeverFailsLoad ==
  (ev.op = "bible" /\ ev.id # Null /\ db # "open") =>
    (ev.res = "pending" /\ ev.fetch /\ app.hidden.error)

\* C8: when the fetch succeeds and the write to the store is rejected or
\* storage is unavailable, the load still succeeds: the fetched content is
\* the active collection, the loading view is gone, and the first book and
\* chapter 1 are selected when the collection is not empty.
C8_PutFailureDoesNotAbortLoad ==
  (ev.op = "fetch" /\ ev.put \in {"rejected", "unavailable"}) =>
    /\ ev.res = "ok"
    /\ app.bibleData = Some(Library[ev.id])
    /\ app.hidden.loading
    /\ Len(Library[ev.id]) > 0 =>
         /\ app.sel.book = Library[ev.id][1].abbrev
         /\ app.sel.chapter = 1
         /\ app.sel.startVerse = NoNum /\ app.sel.endVerse = NoNum

C8_Witness ==
  /\ ev.op = "fetch" /\ ev.put = "unavailable" /\ db = "closed"
  /\ app.bibleData = Some(DocX)
  /\ ~app.hidden.reading

\* C9 as stated: with the database open at the write and at the read, a
\* getBibleFromCache(id) after cacheBible(id, content) returns content.
C9_RoundTripAlways ==
  (rt.got.id # Null /\ rt.put[rt.got.id].fate \in {"accepted", "rejected"}
     /\ rt.got.res \in {"success", "error"}) =>
    rt.got.data = rt.put[rt.got.id].content

\* C9 amended: a getBibleFromCache(id) that answers without error after a
\* cacheBible(id, content) whose write was accepted returns content, whatever
\* was put or read under other ids in between.
C9_RoundTrip ==
  (rt.got.id # Null /\ rt.put[rt.got.id].fate = "accepted" /\ rt.got.res = "success") =>
    rt.got.data = rt.put[rt.got.id].content

C9_Witness ==
  /\ rt.got.id = "X" /\ rt.got.res = "success"
  /\ rt.put["X"].fate = "accepted" /\ rt.put["X"].between
  /\ rt.put["Y"].fate = "accepted"
  /\ rt.got.data = Some(DocE)

FirstChapter(id) == Library[id][1].chapters[1]

AutoSelected(id) ==
  /\ app.sel = [bible |-> id, book |-> Library[id][1].abbrev, chapter |-> 1,
                startVerse |-> NoNum, endVerse |-> NoNum]
  /\ ~app.hidden.reading
  /\ app.reading.chapterTitle = [name |-> Library[id][1].name, chapter |-> 1, suffix |-> <<>>]

\* C10 as stated: a document change to a non-empty document whose load
\* succeeds, nothing else interleaved, ends with book 0, chapter 1, no
\* verses selected, the Reading view and the title "{book0.name} 1".
C10_AutoSelectAlways ==
  (LoadSucceeded /\ ev.solo /\ Len(Library[ev.id]) > 0) => AutoSelected(ev.id)

\* C10 amended: the same, for every first chapter of at least two verses.
C10_AutoSelect ==
  (LoadSucceeded /\ ev.solo /\ Len(Library[ev.id]) > 0 /\ Len(FirstChapter(ev.id)) >= 2) =>
    AutoSelected(ev.id)

C10_Witness ==
  /\ ev.op = "fetch" /\ ev.res = "ok" /\ ev.solo /\ ev.id = "X"
  /\ app.reading.chapterTitle = [name |-> "Genesis", chapter |-> 1, suffix |-> <<>>]
  /\ Len(app.reading.verses) = 2

ErrorView == [welcome |-> TRUE, reading |-> TRUE, loading |-> TRUE, error |-> FALSE]
WelcomeView == [welcome |-> FALSE, reading |-> TRUE, loading |-> TRUE, error |-> TRUE]
ReadingView == [welcome |-> TRUE, reading |-> FALSE, loading |-> TRUE, error |-> TRUE]

\* C11: at the end of a document change whose load failed, the Error view
\* is shown and no other.
C11_FailedLoadShowsError ==
  ((ev.op = "fetch" /\ ev.res = "failed") \/ (ev.op = "bible" /\ ev.res = "storageThrew")) =>
    app.hidden = ErrorView

ChaptersOf(a) ==
  LET i == findBookByAbbrev(a.bibleData, a.sel.book)
  IN IF i = 0 THEN <<>> ELSE Books(a.bibleData)[i].chapters

BookSelected(a) == findBookByAbbrev(a.bibleData, a.sel.book) # 0

\* C12: a chapter change to a value outside [1, number of chapters of the
\* selected book] ends in the Error view and leaves chapter, verseStart and
\* verseEnd as they were before the change.
C12_ChapterOutOfRangeRejected ==
  [][(ev'.op = "chapter" /\ BookSelected(app) /\ ev'.value > Len(ChaptersOf(app))) =>
       /\ app'.hidden = ErrorView
       /\ app'.sel.chapter = app.sel.chapter
       /\ app'.sel.startVerse = app.sel.startVerse
       /\ app'.sel.endVerse = app.sel.endVerse]_vars

\* C13: in every reachable state where verseStart and verseEnd are both
\* set, verseStart <= verseEnd.
C13_VerseRangeOrdered ==
  (app.sel.startVerse # NoNum /\ app.sel.endVerse # NoNum) =>
    app.sel.startVerse <= app.sel.endVerse

\* C14: a book change to a non-empty value that is the abbreviation of no
\* book of the active collection ends in the Error view and selects no
\* chapter.
C14_UnknownBookRejected ==
  (ev.op = "book" /\ ev.value # Null /\ app.bibleData # None
     /\ findBookByAbbrev(app.bibleData, ev.value) = 0) =>
    (app.hidden = ErrorView /\ app.sel.chapter = NoNum)

\* C15: a book change to empty or a chapter change to null issued while the
\* Reading view is shown leaves the selection incomplete and ends in the Idle
\* (welcome) view.
C15_IncompleteSelectionShowsIdle ==
  [][(app.hidden = ReadingView
        /\ ((ev'.op = "book" /\ ev'.value = Null) \/ (ev'.op = "chapter" /\ ev'.value = NoNum))) =>
       app'.hidden = WelcomeView]_vars

\* C16: downward reset.  A document change leaves book, chapter and verses
\* null when the load starts; after a book change the verses are null and the
\* chapter is null or the auto-selected chapter 1; after a chapter change the
\* verses are null; a change to an empty value leaves every level below null.
C16_DownwardReset ==
  /\ \A value \in Docs \cup {Null} : bibleChange(app, value).sel = DocumentOnly(value)
  /\ ev.op = "bible" => app.sel = DocumentOnly(ev.id)
  /\ ev.op = "book" =>
       /\ app.sel.book = ev.value
       /\ app.sel.chapter \in {NoNum, 1}
       /\ ev.value = Null => app.sel.chapter = NoNum
       /\ app.sel.startVerse = NoNum /\ app.sel.endVerse = NoNum
  /\ ev.op = "chapter" =>
       /\ app.sel.chapter = ev.value
       /\ app.sel.startVerse = NoNum /\ app.sel.endVerse = NoNum

C16_Witness ==
  /\ ev.op = "book" /\ ev.value = Null
  /\ app.sel = DocumentOnly("X")
  /\ app.hidden = ReadingView

\* C17: a document change with an empty value sets every field of the
\* selection to null, shows the welcome view and starts no load: no network
\* fetch is issued and no suspended load belongs to this change.
C17_EmptyDocumentResets ==
  (ev.op = "bible" /\ ev.id = Null) =>
    /\ app.sel = EmptySelection
    /\ app.hidden = WelcomeView
    /\ ~ev.fetch
    /\ \A k \in LoadKinds : k.mark # "old" => loads[k] = 0

C17_Witness ==
  /\ ev.op = "bible" /\ ev.id = Null
  /\ app.bibleData = Some(DocX)
  /\ app.hidden = WelcomeView

BookIndex(a) == findIndex(a.bibleData, a.sel.book)

WholeChapter(a) ==
  LET chapterVerses == ChaptersOf(a)[a.sel.chapter]
  IN getVerseRange(chapterVerses, 1, Len(chapterVerses))

\* What navigateChapter(-1) does at chapter 1 of a book with a previous book
\* P: P is selected and the deferred step is scheduled with P's number of
\* chapters.
CrossesBackward ==
  (ev'.op = "nav" /\ ev'.value = -1 /\ app.sel.chapter = 1 /\ BookIndex(app) > 1) =>
    /\ app'.sel.bible = app.sel.bible
    /\ app'.sel.book = Books(app.bibleData)[BookIndex(app) - 1].abbrev
    /\ timers' = Append(timers, Len(Books(app.bibleData)[BookIndex(app) - 1].chapters))
    /\ ev'.res = "prevBook"

\* The deferred step, run before any other event, selects the last chapter
\* of the selected book with no verse range.
DeferredSelectsLastChapter ==
  app'.sel = [app.sel EXCEPT !.chapter = Len(ChaptersOf(app)),
                             !.startVerse = NoNum, !.endVerse = NoNum]

ShowsWholeChapter(a) ==
  /\ a.hidden = ReadingView
  /\ a.reading.verses = WholeChapter(a)
  /\ a.reading.chapterTitle.name = Books(a.bibleData)[BookIndex(a)].name
  /\ a.reading.chapterTitle.chapter = a.sel.chapter

\* C18 as stated: from chapter 1 of a book with a previous book P,
\* navigateChapter(-1) followed by its deferred step (no other event in
\* between) gives the selection (P, last chapter of P) and the Reading view
\* of that chapter.
C18_BackwardAcrossBooksAlways ==
  [][
      /\ CrossesBackward
      /\ (ev'.op = "timer" /\ ev'.res = "direct") =>
           (DeferredSelectsLastChapter /\ ShowsWholeChapter(app'))
    ]_vars

\* C18 amended: the same selection; the Reading view of that chapter when it
\* has at least one verse, the Error view when it has none.
C18_BackwardAcrossBooks ==
  [][
      /\ CrossesBackward
      /\ (ev'.op = "timer" /\ ev'.res = "direct") =>
           /\ DeferredSelectsLastChapter
           /\ IF Len(ChaptersOf(app')[app'.sel.chapter]) > 0
              THEN ShowsWholeChapter(app')
              ELSE app'.hidden = ErrorView
    ]_vars

C18_Witness ==
  /\ ev.op = "timer" /\ ev.res = "direct"
  /\ app.sel = [bible |-> "X", book |-> "Gn", chapter |-> 2,
                startVerse |-> NoNum, endVerse |-> NoNum]
  /\ app.hidden = ReadingView

\* C19: forward navigation across a book boundary.  From the last chapter of
\* a book with a next book N, navigateChapter(+1) ends with the selection
\* (N, chapter 1, no verses) in the same document.
C19_ForwardAcrossBooks ==
  [][(ev'.op = "nav" /\ ev'.value = 1 /\ BookSelected(app)
        /\ app.sel.chapter = Len(ChaptersOf(app))
        /\ BookIndex(app) < Len(Books(app.bibleData))) =>
       app'.sel = [bible |-> app.sel.bible,
                   book |-> Books(app.bibleData)[BookIndex(app) + 1].abbrev,
                   chapter |-> 1, startVerse |-> NoNum, endVerse |-> NoNum]]_vars

C19_Witness ==
  /\ ev.op = "nav" /\ ev.value = 1 /\ ev.res = "next"
  /\ app.sel = [bible |-> "Y", book |-> "Ap", chapter |-> 1,
                startVerse |-> NoNum, endVerse |-> NoNum]
  /\ app.hidden = ReadingView

\* C20: navigation inside a book.  For d in {-1, +1} with chapter + d inside
\* [1, number of chapters of the selected book], navigateChapter(d) keeps
\* document and book, sets chapter to chapter + d and clears the verse range,
\* so that a chapter with verses is shown whole.
C20_NavigateInsideBook ==
  [][(ev'.op = "nav" /\ BookSelected(app) /\ app.sel.chapter # NoNum
        /\ app.sel.chapter + ev'.value \in 1..Len(ChaptersOf(app))) =>
       /\ app'.sel = [app.sel EXCEPT !.chapter = app.sel.chapter + ev'.value,
                                     !.startVerse = NoNum, !.endVerse = NoNum]
       /\ Len(ChaptersOf(app')[app'.sel.chapter]) > 0 => ShowsWholeChapter(app')]_vars

C20_Witness ==
  /\ ev.op = "nav" /\ ev.value = 1 /\ ev.res = "same"
  /\ app.sel = [bible |-> "X", book |-> "Gn", chapter |-> 2,
                startVerse |-> NoNum, endVerse |-> NoNum]
  /\ app.hidden = ReadingView

AtStart(a) == BookIndex(a) = 1 /\ a.sel.chapter = 1
AtEnd(a) ==
  /\ BookSelected(a)
  /\ BookIndex(a) = Len(Books(a.bibleData))
  /\ a.sel.chapter = Len(ChaptersOf(a))

\* C21: navigation at the ends is a no-op.  navigateChapter(-1) at chapter 1
\* of the first book and navigateChapter(+1) at the last chapter of the last
\* book leave the selection, the active collection and the view unchanged,
\* and schedule nothing.
C21_NavigationAtEndsNoOp ==
  [][(ev'.op = "nav" /\ ((ev'.value = -1 /\ AtStart(app)) \/ (ev'.value = 1 /\ AtEnd(app)))) =>
       (app' = app /\ timers' = timers)]_vars

C21_Witness ==
  /\ ev.op = "nav" /\ ev.value = -1 /\ ev.res = "prev"
  /\ AtStart(app)
  /\ app.sel.bible = "X"
  /\ app.hidden = ReadingView

\* C22: while the Reading view is shown, the previous button is enabled
\* exactly when chapter > 1 or the selected book is not the first one, and the
\* next button exactly when chapter < number of chapters of the selected book
\* or the selected book is not the last one.
C22_NavigationAvailability ==
  app.hidden = ReadingView =>
    /\ BookSelected(app)
    /\ ~app.reading.prevDisabled <=> (app.sel.chapter > 1 \/ BookIndex(app) > 1)
    /\ ~app.reading.nextDisabled <=>
         (app.sel.chapter < Len(ChaptersOf(app)) \/ BookIndex(app) < Len(Books(app.bibleData)))

C22_Witness ==
  /\ app.hidden = ReadingView
  /\ app.sel.bible = "Y" /\ app.sel.book = "Jd" /\ app.sel.chapter = 1
  /\ app.reading.nextDisabled /\ ~app.reading.prevDisabled

\* The effective range of the selection: verseStart when set, else 1;
\* verseEnd when set, else the length of the selected chapter.
EffectiveStart(a) == IF a.sel.startVerse # NoNum THEN a.sel.startVerse ELSE 1
EffectiveEnd(a) ==
  IF a.sel.endVerse # NoNum THEN a.sel.endVerse ELSE Len(ChaptersOf(a)[a.sel.chapter])

\* C23: title rule.  While the Reading view is shown the title is the book
\* name and the chapter, followed by ":start" when start = end, by
\* ":start-end" when start # end and the effective range is not exactly the
\* full chapter, and by nothing only when it is exactly the full chapter.
C23_TitleRule ==
  app.hidden = ReadingView =>
    LET start == EffectiveStart(app)
        end == EffectiveEnd(app)
        full == start = 1 /\ end = Len(ChaptersOf(app)[app.sel.chapter])
    IN app.reading.chapterTitle =
         [name |-> Books(app.bibleData)[BookIndex(app)].name,
          chapter |-> app.sel.chapter,
          suffix |-> IF start = end THEN <<start>>
                     ELSE IF full THEN <<>> ELSE <<start, end>>]

\* The verses of a chapter numbered lo..hi, in order, with their texts.
Verses(chapterVerses, lo, hi) ==
  [k \in 1..(IF hi >= lo THEN hi - lo + 1 ELSE 0) |->
     [verse |-> lo + k - 1, text |-> chapterVerses[lo + k - 1]]]

Min(x, y) == IF x <= y THEN x ELSE y
Max(x, y) == IF x >= y THEN x ELSE y

SelectedChapter(a) == ChaptersOf(a)[a.sel.chapter]

\* C24: default range.  While the Reading view is shown with verseEnd unset,
\* the displayed verses run from verseStart (1 when unset) through the end of
\* the chapter, in order, numbered by their 1-based index: the whole chapter
\* when both are unset.
C24_DefaultRange ==
  (app.hidden = ReadingView /\ app.sel.endVerse = NoNum) =>
    /\ app.reading.verses =
         Verses(SelectedChapter(app), EffectiveStart(app), Len(SelectedChapter(app)))
    /\ app.sel.startVerse = NoNum =>
         /\ Len(app.reading.verses) = Len(SelectedChapter(app))
         /\ \A k \in 1..Len(app.reading.verses) :
              app.reading.verses[k] = [verse |-> k, text |-> SelectedChapter(app)[k]]

C24_Witness ==
  /\ app.hidden = ReadingView
  /\ app.sel.startVerse = 2 /\ app.sel.endVerse = NoNum
  /\ Len(SelectedChapter(app)) = 3
  /\ Len(app.reading.verses) = 2

AllChapters ==
  UNION {UNION {{Library[d][i].chapters[c] : c \in 1..Len(Library[d][i].chapters)} :
                  i \in 1..Len(Library[d])} : d \in Docs}

\* C25: inclusive range.  For every chapter and every start <= end,
\* getVerseRange yields exactly the verses numbered in [start, end] and in
\* [1, chapter length], in increasing order with their texts; and while the
\* Reading view is shown the displayed verses are those of the effective
\* range.
C25_InclusiveRange ==
  /\ \A chapterVerses \in AllChapters, start \in 0..(MaxVerse + 1), end \in 0..(MaxVerse + 1) :
       start <= end =>
         getVerseRange(chapterVerses, start, end) =
           Verses(chapterVerses, Max(start, 1), Min(end, Len(chapterVerses)))
  /\ (app.hidden = ReadingView /\ EffectiveStart(app) <= EffectiveEnd(app)) =>
       app.reading.verses =
         Verses(SelectedChapter(app), EffectiveStart(app),
                Min(EffectiveEnd(app), Len(SelectedChapter(app))))

C25_Witness ==
  /\ app.hidden = ReadingView
  /\ app.sel.startVerse = 2 /\ app.sel.endVerse = 2
  /\ app.reading.verses = <<[verse |-> 2, text |-> "x5"]>>

ChapterSelected(a) ==
  BookSelected(a) /\ a.sel.chapter \in 1..Len(ChaptersOf(a))

\* The effective range holds no verse of the selected chapter.
NoVerseInRange(a) ==
  EffectiveStart(a) > Min(EffectiveEnd(a), Len(SelectedChapter(a)))

\* C26: whenever an event ends with a selected chapter whose effective range
\* holds no verse, the Error view is shown with the no-verses message; the
\* Reading view never shows an empty verse list; and a verse change leaves
\* document, book and chapter as they were.
C26_NoVersesInRange ==
  [][
      /\ (ChapterSelected(app') /\ NoVerseInRange(app')) =>
           /\ app'.hidden = ErrorView
           /\ app'.errorMessage = "No verses found for the specified range."
      /\ app'.hidden = ReadingView => Len(app'.reading.verses) > 0
      /\ ev'.op \in {"startVerse", "endVerse"} =>
           /\ app'.sel.bible = app.sel.bible
           /\ app'.sel.book = app.sel.book
           /\ app'.sel.chapter = app.sel.chapter
    ]_vars

C26_Witness ==
  /\ ev.op = "startVerse" /\ ev.value = 3
  /\ app.sel.bible = "X" /\ app.sel.book = "Gn" /\ app.sel.chapter = 1
  /\ app.hidden = ErrorView
  /\ app.errorMessage = "No verses found for the specified range."

\* The suspended loads of the latest document change.
LiveLoads == SumOver(loads, {k \in LoadKinds : k.mark # "old"})

\* C27: no retry.  The latest document change has at most one load in flight
\* and so at most one fetch; it has exactly one while its outcome is pending
\* and none once it has succeeded or failed; the step that reports a fetch
\* failure issues no further fetch.
C27_NoRetry ==
  /\ LiveLoads <= 1
  /\ cur = "pending" <=> LiveLoads = 1
  /\ (ev.op = "fetch" /\ ev.res = "failed") => ~ev.fetch
  /\ ev.op = "fetch" => \A k \in LoadKinds : (k.mark = "solo" /\ k.id = ev.id) => loads[k] = 0

C27_Witness ==
  /\ ev.op = "fetch" /\ ev.res = "failed" /\ ev.id = "X"
  /\ cur = "failed"
  /\ Count(loads) = 0
  /\ app.hidden = ErrorView

\* C28: the collection of a document is discarded once another document (or
\* none) is selected: whenever the Reading view is shown, a document is
\* selected and every displayed verse is a verse of that document.
C28_PreviousCollectionDiscarded ==
  app.hidden = ReadingView =>
    /\ app.sel.bible # Null
    /\ \A i \in 1..Len(app.reading.verses) :
         app.reading.verses[i].text \in Texts(Library[app.sel.bible])

Views == {"welcome", "loading", "reading", "error"}

Visible(a) == {v \in Views : ~a.hidden[v]}

\* C30: after every completed event handler exactly one of the Idle
\* (welcome), Loading, Reading and Error views is visible.
C30_ExactlyOneView == Cardinality(Visible(app)) = 1

\* SpecRecover: recovery from the Error view.  A first document Y is chosen
\* from the welcome view; chapter and verse changes, failing fetches and a
\* closing connection lead to the Error view, and document X is selected
\* only while the Error view is shown.  One load at a time; every pending
\* answer of the store and of the network eventually arrives.
InitRecover == Init /\ db = "open"

StoreAnswers == \E l \in LoadKinds, outcome \in {"success", "error"} : CacheResult(l, outcome)

NetworkAnswers ==
  \E l \in LoadKinds, outcome \in {"ok", "fail"}, putOutcome \in {"ok", "rejected"} :
    FetchResult(l, outcome, putOutcome)

NextRecover ==
  \/ app.hidden = WelcomeView /\ Count(loads) = 0 /\ BibleChange("Y")
  \/ app.hidden = ErrorView /\ Count(loads) = 0 /\ BibleChange("X")
  \/ \E value \in 0..MaxChapter : ChapterChange(value)
  \/ \E level \in {"startVerse", "endVerse"}, value \in 0..MaxVerse : VerseChange(level, value)
  \/ StoreAnswers
  \/ NetworkAnswers
  \/ DbClose

\* A network request is in flight: NetworkAnswers is enabled exactly then,
\* and every step of it changes loads.
FetchPending == \E k \in LoadKinds : k.stage = "fetch" /\ loads[k] > 0

\* Weak fairness of both kinds of answer; for NetworkAnswers it is written
\* out, with FetchPending for ENABLED <<NetworkAnswers>>_vars.
SpecRecover ==
  /\ InitRecover /\ [][NextRecover]_vars
  /\ WF_vars(StoreAnswers)
  /\ ([]<>~FetchPending \/ []<><<NetworkAnswers>>_vars)

\* The document change to X (applied from the Error view) is the last event.
ChangedToX == ev.op = "bible" /\ ev.id = "X"

\* The fetch of the document failed, or the user acted again.
NotLoadableOrUserEvent ==
  \/ ev.op = "fetch" /\ ev.res = "failed"
  \/ ev.op \in {"chapter", "startVerse", "endVerse"}

\* C29: recovery after any error.  A document change to the non-empty
\* document X applied while the Error view is shown is followed, unless the
\* fetch of X fails or another user event occurs, by the Reading view of
\* X's first book, chapter 1.
C29_Recovery ==
  ChangedToX ~> ((app.hidden = ReadingView /\ AutoSelected("X")) \/ NotLoadableOrUserEvent)

\* C31: a book change to a non-empty abbreviation of a book of the active
\* collection leaves the document and the collection as they were and ends
\* with the selection (book, chapter 1, no verses) and the Reading view of
\* the whole of chapter 1 of that book (every book of the library has a
\* first chapter that holds a verse).
C31_BookChangeSelectsChapterOne ==
  [][
      (ev'.op = "book" /\ ev'.value # Null /\ app.bibleData # None
         /\ findBookByAbbrev(app.bibleData, ev'.value) # 0) =>
        /\ app'.sel = [bible |-> app.sel.bible, book |-> ev'.value, chapter |-> 1,
                       startVerse |-> NoNum, endVerse |-> NoNum]
        /\ app'.bibleData = app.bibleData
        /\ ShowsWholeChapter(app')
  ]_vars

C31_Witness ==
  /\ ev.op = "book" /\ ev.value = "Ex"
  /\ app.sel = [bible |-> "X", book |-> "Ex", chapter |-> 1,
                startVerse |-> NoNum, endVerse |-> NoNum]
  /\ app.hidden = ReadingView
  /\ Len(app.reading.verses) = 3

\* C32: a verseStart or verseEnd change sets the named field to the given
\* value and nothing else: document, book, chapter, the other verse field
\* and the active collection are as before, in the Reading view and in the
\* Error view alike.
C32_VerseChangeFrame ==
  [][
      ev'.op \in {"startVerse", "endVerse"} =>
        /\ app'.sel = [app.sel EXCEPT ![ev'.op] = ev'.value]
        /\ app'.bibleData = app.bibleData
  ]_vars

C32_Witness ==
  /\ ev.op = "endVerse" /\ ev.value = 1
  /\ app.sel = [bible |-> "X", book |-> "Gn", chapter |-> 1, startVerse |-> 2, endVerse |-> 1]
  /\ app.hidden = ErrorView

\* The last event is a user event other than the backward navigation that
\* scheduled the pending deferred step.
LaterUserEvent ==
  \/ ev.op \in {"bible", "book", "chapter"}
  \/ ev.op = "nav" /\ ev.res # "prevBook"

\* C33: the deferred last-chapter step never overrides a later event: when
\* it runs right after a document, book or chapter change or another
\* navigation, the selection stays the one that event produced.
C33_DeferredStepKeepsLaterEvent ==
  [][(ev'.op = "timer" /\ LaterUserEvent) => app'.sel = app.sel]_vars

\* C34: the chapter stays in range under navigation: whenever a book and a
\* chapter are selected, the chapter lies between 1 and the number of
\* chapters of the selected book, and the Error view "Chapter data not
\* found." is never shown.
C34_ChapterInRange ==
  /\ (app.sel.book # Null /\ app.sel.chapter # NoNum) => ChapterSelected(app)
  /\ app.errorMessage # "Chapter data not found."

\* C35: the store maps an id only to the content that a successful fetch of
\* that id returned and that was written under that id; a fetch that fails
\* leaves the store as it was.
C35_StoreHoldsFetchedContent ==
  [][
      /\ \A d \in Docs :
           store'[d] # None => (d \in stored' /\ store'[d] = Some(Record(d, Library[d])))
      /\ (ev'.op = "fetch" /\ ev'.res = "failed") => store' = store
  ]_vars

C35_Witness ==
  /\ ev.op = "fetch" /\ ev.res = "ok" /\ ~ev.solo /\ ev.put = "ok"
  /\ store["X"] = Some(Record("X", DocX))
  /\ store["Y"] = Some(Record("Y", DocY))

LoadingView == [welcome |-> TRUE, reading |-> TRUE, loading |-> FALSE, error |-> TRUE]

\* The last event is the completion of a load: a store hit, or the answer
\* of the network.
LoadCompleted == (ev.op = "cache" /\ ev.res = "hit") \/ ev.op = "fetch"

\* C36: loading terminates.  A document change that starts a load shows the
\* Loading view; the Loading view is visible only while a load is pending;
\* a completed load has made its content active or ends in the Error view;
\* and, the store and the network answering eventually, a pending load
\* eventually completes.
C36_LoadingTerminates ==
  /\ [](/\ (ev.op = "bible" /\ ev.res = "pending") => app.hidden = LoadingView
        /\ ~app.hidden.loading => Count(loads) > 0
        /\ LoadCompleted => (app.bibleData = Some(Library[ev.id]) \/ app.hidden = ErrorView))
  /\ (Count(loads) = 1) ~> (Count(loads) = 0 /\ LoadCompleted)

====
